---- MODULE Spec2Model ----
(***************************************************************************)
(* A model of the kalshi-weather-bot core: the day-of-year climatology     *)
(* model (nyc_temperature_model.py) and the mispricing engine              *)
(* (mispricing_analyzer.py), with the contract records of                  *)
(* kalshi_markets.py.                                                      *)
(*                                                                         *)
(* Units.  Temperatures are integers in hundredths of a degree (75.0F is   *)
(* 7500, the continuity correction 0.01 is 1).  Probabilities, prices,     *)
(* edges and stakes are integers in thousandths (0.40 is 400).  A Python   *)
(* float is a record Num(v) or NaN; a Python None is None.  Means and       *)
(* standard deviations are rounded down to a hundredth, and the normal CDF *)
(* is a step table in half standard deviations.                            *)
(*                                                                         *)
(* Spec is the climatology model (train and the parameter lookup);         *)
(* SpecAnalyzer is a session over a trained model: its queries, the        *)
(* MispricingAnalyzer built on it and the market parser; SpecSystem is a   *)
(* ForecastSystem, which loads and trains on first use.                    *)
(***************************************************************************)
EXTENDS Integers, Sequences, FiniteSets, TLC

VARIABLES df, window, model, call, result, system, effects

vars == <<df, window, model, call, result, system, effects>>

-----------------------------------------------------------------------------
(* Values *)

None == [tag |-> "None", v |-> 0]
NaN == [tag |-> "nan", v |-> 0]
Num(x) == [tag |-> "num", v |-> x]
IsNum(f) == f.tag = "num"

\* The outcome of a call: a returned value or a raised exception.
Ret(x) == [raised |-> FALSE, exc |-> "", val |-> x]
Raise(e) == [raised |-> TRUE, exc |-> e, val |-> None]

\* K applied to the value of e, with e evaluated once.
Apply(K(_), e) == CHOOSE r \in { K(x) : x \in {e} } : TRUE

NoModel == [trained |-> FALSE]
NoCall == [op |-> "none"]

\* A ForecastSystem after __init__: no analyzer, not initialized.
NoAnalyzer == [set |-> FALSE]
NoSystem == [analyzer |-> NoAnalyzer, _initialized |-> FALSE]
\* The calls of load_nyc_daily_highs and of train made so far.
NoEffects == [loads |-> 0, trainings |-> 0]

-----------------------------------------------------------------------------
(* Bounds of the model *)

\* The most observations a historical frame holds.
MaxObs == 2
\* Window radii 0..MaxWindow are passed to train.
MaxWindow == 2
\* min_samples values 0..MaxMinSamples are passed to train.
MaxMinSamples == 2

-----------------------------------------------------------------------------
(* Calendar dates and day-of-year *)

IsLeap(y) == (y % 4 = 0 /\ y % 100 # 0) \/ y % 400 = 0

\* The days of the year before month m (the table of the datetime module).
DaysBefore(y, m) ==
    <<0, 31, 59, 90, 120, 151, 181, 212, 243, 273, 304, 334>>[m]
        + (IF m > 2 /\ IsLeap(y) THEN 1 ELSE 0)

\* date.timetuple().tm_yday and Series.dt.dayofyear
DayOfYear(dt) == DaysBefore(dt.y, dt.m) + dt.d

Date(y, m, d) == [y |-> y, m |-> m, d |-> d]

\* The calendar dates the historical frames are drawn from.
ObsDates ==
    { Date(2023, 1, 1), Date(2024, 1, 1), Date(2024, 1, 2),
      Date(2024, 7, 1), Date(2023, 12, 31), Date(2024, 12, 31) }

\* A cell of the high_temp column: a reading or a missing value.
TempCells == {NaN, Num(7300), Num(7500)}

\* A frame of daily highs: at most one row per calendar date (the loader
\* groups by date), as a function from its dates to the high_temp cell.
Frames ==
    UNION { [S -> TempCells] : S \in {T \in SUBSET ObsDates : Cardinality(T) <= MaxObs} }

Windows == 0..MaxWindow
MinSamplesValues == 0..MaxMinSamples

\* The dates queries are asked about.
QueryDates ==
    { Date(2025, 1, 1), Date(2025, 1, 2), Date(2025, 7, 2), Date(2025, 7, 3),
      Date(2025, 12, 30), Date(2025, 12, 31), Date(2024, 12, 31) }

-----------------------------------------------------------------------------
(* NYCTemperatureModel.train *)

\* range(1, 367)
DoyStop == 367
\* the constant the wrapped window bounds are computed with
WrapDays == 365
\* range(1, 183)
OffsetStop == 183

Doys == 1..(DoyStop - 1)

\* The row mask of train for target day doy: is a row of day-of-year d2 selected?
WindowMask(doy, d2, w) ==
    IF doy - w < 1
    THEN d2 >= WrapDays + doy - w \/ d2 <= doy + w
    ELSE IF doy + w > 366
    THEN d2 >= doy - w \/ d2 <= doy + w - WrapDays
    ELSE d2 >= doy - w /\ d2 <= doy + w

\* df.loc[mask, "high_temp"].dropna(): the dates of the rows kept for doy.
WindowRows(frame, doy, w) ==
    { dt \in DOMAIN frame : WindowMask(doy, DayOfYear(dt), w) /\ IsNum(frame[dt]) }

RECURSIVE SumTemps(_, _)
SumTemps(frame, rows) ==
    IF rows = {} THEN 0
    ELSE LET dt == CHOOSE x \in rows : TRUE
         IN  frame[dt].v + SumTemps(frame, rows \ {dt})

RECURSIVE SumSq(_, _, _)
SumSq(frame, rows, mean) ==
    IF rows = {} THEN 0
    ELSE LET dt == CHOOSE x \in rows : TRUE
         IN  (frame[dt].v - mean) * (frame[dt].v - mean) + SumSq(frame, rows \ {dt}, mean)

\* The integer square root, by bisection on lo..hi (lo * lo <= n < hi * hi).
RECURSIVE SqrtBetween(_, _, _)
SqrtBetween(n, lo, hi) ==
    IF hi - lo <= 1 THEN lo
    ELSE LET mid == (lo + hi) \div 2
         IN  IF mid * mid <= n THEN SqrtBetween(n, mid, hi) ELSE SqrtBetween(n, lo, mid)

ISqrt(n) == SqrtBetween(n, 0, n + 1)

\* temps.mean(): NaN for an empty selection.
Mean(frame, rows) ==
    IF rows = {} THEN NaN ELSE Num(SumTemps(frame, rows) \div Cardinality(rows))

\* temps.std(ddof=1): NaN when fewer than two values are selected.
Std(frame, rows) ==
    IF Cardinality(rows) < 2 THEN NaN
    ELSE Num(ISqrt(SumSq(frame, rows, Mean(frame, rows).v) \div (Cardinality(rows) - 1)))

\* The model built from temps, the rows the loop of train selects for each
\* day-of-year, for the days present that the loop does not skip.
FittedModel(frame, temps, ms, present) ==
    [ trained |-> TRUE,
      mu_by_doy |-> [doy \in present |-> Mean(frame, temps[doy])],
      sigma_by_doy |-> [doy \in present |-> Std(frame, temps[doy])],
      min_samples |-> ms ]

\* A variant of train that keeps a day only with more than min_samples rows.
TrainModelAboveThreshold(frame, w, ms) ==
    LET K(temps) ==
            FittedModel(frame, temps, ms, { doy \in Doys : Cardinality(temps[doy]) > ms })
    IN  Apply(K, [doy \in Doys |-> WindowRows(frame, doy, w)])

\* The model train returns: days with fewer than min_samples rows are skipped.
TrainModel(frame, w, ms) ==
    LET K(temps) ==
            FittedModel(frame, temps, ms, { doy \in Doys : ~(Cardinality(temps[doy]) < ms) })
    IN  Apply(K, [doy \in Doys |-> WindowRows(frame, doy, w)])

Train(w, ms) ==
    /\ call = NoCall
    /\ window' = w
    /\ model' = TrainModel(df, w, ms)
    /\ call' = [op |-> "train", window |-> w, min_samples |-> ms]
    /\ result' = Ret(None)
    /\ UNCHANGED <<df, system, effects>>

\* The program is single-threaded: a call runs to completion and its caller
\* takes the outcome before the next call is made.
Return ==
    /\ call # NoCall
    /\ call' = NoCall
    /\ result' = Ret(None)
    /\ UNCHANGED <<df, window, model, system, effects>>

-----------------------------------------------------------------------------
(* NYCTemperatureModel._params_for_date *)

\* The wrap applied to a probed day-of-year.
WrapProbe(t) == IF t < 1 THEN t + WrapDays ELSE IF t > WrapDays THEN t - WrapDays ELSE t

\* for offset in range(1, 183): for test_doy in [doy - offset, doy + offset]:
\* the first probe found in the model is returned, the lower one first.
ProbeHits(mdl, doy) ==
    { offset \in 1..(OffsetStop - 1) :
        \/ WrapProbe(doy - offset) \in DOMAIN mdl.mu_by_doy
        \/ WrapProbe(doy + offset) \in DOMAIN mdl.mu_by_doy }

NearestSearch(mdl, doy) ==
    LET Found(hits) ==
            IF hits = {} THEN Raise("ValueError")
            ELSE LET Probe(offset) ==
                         IF WrapProbe(doy - offset) \in DOMAIN mdl.mu_by_doy
                         THEN WrapProbe(doy - offset) ELSE WrapProbe(doy + offset)
                     At(test_doy) ==
                         Ret(<<mdl.mu_by_doy[test_doy], mdl.sigma_by_doy[test_doy]>>)
                 IN  Apply(At, Probe(CHOOSE o \in hits : \A p \in hits : o <= p))
    IN  Apply(Found, ProbeHits(mdl, doy))

\* _params_for_date on a date object
ParamsForDoy(mdl, doy) ==
    IF doy \notin DOMAIN mdl.mu_by_doy
    THEN NearestSearch(mdl, doy)
    ELSE Ret(<<mdl.mu_by_doy[doy], mdl.sigma_by_doy[doy]>>)

ParamsForDate(dt) ==
    /\ call = NoCall
    /\ model.trained
    /\ call' = [op |-> "_params_for_date", date |-> dt, doy |-> DayOfYear(dt)]
    /\ result' = ParamsForDoy(model, DayOfYear(dt))
    /\ UNCHANGED <<df, window, model, system, effects>>

-----------------------------------------------------------------------------
(* The climatology specification: a frame is loaded, train fits a model,    *)
(* and dates are looked up in it.                                           *)

Init ==
    /\ df \in Frames
    /\ window = 0
    /\ model = NoModel
    /\ call = NoCall
    /\ result = Ret(None)
    /\ system = NoSystem
    /\ effects = NoEffects

Next ==
    \/ \E w \in Windows, ms \in MinSamplesValues : Train(w, ms)
    \/ \E dt \in QueryDates : ParamsForDate(dt)
    \/ Return

Spec == Init /\ [][Next]_vars

-----------------------------------------------------------------------------
(* Float arithmetic: NaN propagates through arithmetic and fails every     *)
(* comparison.                                                              *)

FSub(a, b) == IF IsNum(a) /\ IsNum(b) THEN Num(a.v - b.v) ELSE NaN
FGe(a, b) == IsNum(a) /\ IsNum(b) /\ a.v >= b.v
FGt(a, b) == IsNum(a) /\ IsNum(b) /\ a.v > b.v
FLe(a, b) == IsNum(a) /\ IsNum(b) /\ a.v <= b.v
FLt(a, b) == IsNum(a) /\ IsNum(b) /\ a.v < b.v

-----------------------------------------------------------------------------
(* NYCTemperatureModel probability API *)

\* The standard normal CDF in thousandths at z = k/2, a step table.
PhiHalf(k) ==
    IF k <= -7 THEN 0
    ELSE IF k >= 7 THEN 1000
    ELSE <<1, 6, 23, 67, 159, 309, 500, 691, 841, 933, 977, 994, 999>>[k + 7]

\* norm.cdf(x, mu, sigma): NaN for a NaN parameter or a scale that is not
\* positive; otherwise Phi((x - mu) / sigma), z rounded down to a half.
NormCdf(x, mu, sigma) ==
    IF ~IsNum(mu) \/ ~IsNum(sigma) THEN NaN
    ELSE IF sigma.v <= 0 THEN NaN
    ELSE Num(PhiHalf((2 * (x - mu.v)) \div sigma.v))

\* the continuity correction 0.01 of prob_greater_equal and prob_less_equal
Epsilon == 1

ProbGreaterThan(mdl, x, doy) ==
    LET K(p) == IF p.raised THEN p
                ELSE Ret(FSub(Num(1000), NormCdf(x, p.val[1], p.val[2])))
    IN  Apply(K, ParamsForDoy(mdl, doy))

ProbLessThan(mdl, x, doy) ==
    LET K(p) == IF p.raised THEN p ELSE Ret(NormCdf(x, p.val[1], p.val[2]))
    IN  Apply(K, ParamsForDoy(mdl, doy))

ProbGreaterEqual(mdl, x, doy) == ProbGreaterThan(mdl, x - Epsilon, doy)

ProbLessEqual(mdl, x, doy) == ProbLessThan(mdl, x + Epsilon, doy)

\* prob_range: the bounds are shifted by the continuity correction and the
\* two CDF values are subtracted as they come.
ProbRange(mdl, low, high, doy, inclusive_low, inclusive_high) ==
    LET lo == IF ~inclusive_low THEN low + Epsilon ELSE low
        hi == IF inclusive_high THEN high + Epsilon ELSE high
        K(p) == IF p.raised THEN p
                ELSE Ret(FSub(NormCdf(hi, p.val[1], p.val[2]),
                              NormCdf(lo, p.val[1], p.val[2])))
    IN  Apply(K, ParamsForDoy(mdl, doy))

ProbExactly(mdl, x, doy, tolerance) ==
    ProbRange(mdl, x - tolerance, x + tolerance, doy, TRUE, TRUE)

\* get_forecast
GetForecastOf(mdl, doy) == ParamsForDoy(mdl, doy)

\* The default percentiles of get_percentiles with their standard normal
\* quantiles in thousandths.
Percentiles == {5, 10, 25, 50, 75, 90, 95}

Quantile(p) ==
    IF p = 5 THEN -1645 ELSE IF p = 10 THEN -1282 ELSE IF p = 25 THEN -674
    ELSE IF p = 50 THEN 0 ELSE IF p = 75 THEN 674 ELSE IF p = 90 THEN 1282
    ELSE 1645

\* norm.ppf(q, mu, sigma): NaN for a NaN parameter or a scale that is not
\* positive.
NormPpf(p, mu, sigma) ==
    IF ~IsNum(mu) \/ ~IsNum(sigma) THEN NaN
    ELSE IF sigma.v <= 0 THEN NaN
    ELSE Num(mu.v + (Quantile(p) * sigma.v) \div 1000)

\* get_percentiles
GetPercentilesOf(mdl, doy) ==
    LET K(p) == IF p.raised THEN p
                ELSE Ret([q \in Percentiles |-> NormPpf(q, p.val[1], p.val[2])])
    IN  Apply(K, ParamsForDoy(mdl, doy))

\* A variant of a query that stores the parameters found for an absent day
\* in the model.
QueryFillingIn(op, args, dt, outcome) ==
    LET doy == DayOfYear(dt)
        Filled(p) ==
            IF p.raised \/ doy \in DOMAIN model.mu_by_doy THEN model
            ELSE [ model EXCEPT
                     !.mu_by_doy = [d \in DOMAIN model.mu_by_doy \cup {doy} |->
                                      IF d = doy THEN p.val[1] ELSE model.mu_by_doy[d]],
                     !.sigma_by_doy = [d \in DOMAIN model.sigma_by_doy \cup {doy} |->
                                      IF d = doy THEN p.val[2] ELSE model.sigma_by_doy[d]] ]
    IN  /\ call = NoCall
        /\ model.trained
        /\ call' = [op |-> op, args |-> args, date |-> dt, doy |-> doy]
        /\ result' = outcome
        /\ model' = Apply(Filled, ParamsForDoy(model, doy))
        /\ UNCHANGED <<df, window, system, effects>>

\* A query of the model with arguments args on date dt: the model is read,
\* never written.
Query(op, args, dt, outcome) ==
    /\ call = NoCall
    /\ model.trained
    /\ call' = [op |-> op, args |-> args, date |-> dt, doy |-> DayOfYear(dt)]
    /\ result' = outcome
    /\ UNCHANGED <<df, window, model, system, effects>>

QueryProbGreaterThan(x, dt) ==
    Query("prob_greater_than", <<x>>, dt, ProbGreaterThan(model, x, DayOfYear(dt)))

QueryProbLessThan(x, dt) ==
    Query("prob_less_than", <<x>>, dt, ProbLessThan(model, x, DayOfYear(dt)))

QueryProbGreaterEqual(x, dt) ==
    Query("prob_greater_equal", <<x>>, dt, ProbGreaterEqual(model, x, DayOfYear(dt)))

QueryProbLessEqual(x, dt) ==
    Query("prob_less_equal", <<x>>, dt, ProbLessEqual(model, x, DayOfYear(dt)))

QueryProbRange(low, high, dt, inclusive_low, inclusive_high) ==
    Query("prob_range", <<low, high, inclusive_low, inclusive_high>>, dt,
          ProbRange(model, low, high, DayOfYear(dt), inclusive_low, inclusive_high))

QueryProbExactly(x, dt, tolerance) ==
    Query("prob_exactly", <<x, tolerance>>, dt,
          ProbExactly(model, x, DayOfYear(dt), tolerance))

GetForecast(dt) ==
    Query("get_forecast", <<>>, dt, GetForecastOf(model, DayOfYear(dt)))

GetPercentiles(dt) ==
    Query("get_percentiles", <<>>, dt, GetPercentilesOf(model, DayOfYear(dt)))

-----------------------------------------------------------------------------
(* Contract records (the output of MarketContractParser.parse_contract)     *)

\* The "date" field: None, a date object, a "%Y-%m-%d" string, or a string
\* that strptime rejects.
NoDate == [kind |-> "None", y |-> 0, m |-> 0, d |-> 0]
DateObj(dt) == [kind |-> "date", y |-> dt.y, m |-> dt.m, d |-> dt.d]
DateStr(dt) == [kind |-> "str", y |-> dt.y, m |-> dt.m, d |-> dt.d]
BadStr == [kind |-> "badstr", y |-> 0, m |-> 0, d |-> 0]

\* datetime.strptime(s, "%Y-%m-%d").date()
Strptime(s) == IF s.kind = "str" THEN Ret(Date(s.y, s.m, s.d)) ELSE Raise("ValueError")

\* date_obj.timetuple().tm_yday of the date a contract carries
ContractDay(c) == DayOfYear(Date(c.date.y, c.date.m, c.date.d))

ContractTypes == {"greater_than", "less_than", "range", "unknown"}

DateValues ==
    { NoDate, DateObj(Date(2025, 1, 1)), DateStr(Date(2025, 7, 2)), BadStr,
      DateObj(Date(2024, 12, 31)) }

Temperatures == {None, Num(7400), Num(7600)}

Prices == {None, Num(0), Num(400), Num(900)}

Volumes == {None, Num(0), Num(100)}

Contracts ==
    [ ticker : {"T"}, date : DateValues, temperature : Temperatures,
      contract_type : ContractTypes, yes_mid : Prices, volume : Volumes ]

-----------------------------------------------------------------------------
(* MispricingAnalyzer *)

\* A variant of the branch on contract_type in which an unknown type falls
\* through to the greater_than query.
QueryUnknownAsGreater(mdl, c, doy) ==
    IF c.contract_type = "less_than"
    THEN ProbLessEqual(mdl, c.temperature.v, doy)
    ELSE ProbGreaterEqual(mdl, c.temperature.v, doy)

\* The branch of calculate_model_probability on contract_type.
QueryForType(mdl, c, doy) ==
    IF c.contract_type = "greater_than"
    THEN ProbGreaterEqual(mdl, c.temperature.v, doy)
    ELSE IF c.contract_type = "less_than"
    THEN ProbLessEqual(mdl, c.temperature.v, doy)
    ELSE IF c.contract_type = "range"
    THEN ProbGreaterEqual(mdl, c.temperature.v, doy)
    ELSE Ret(None)

\* calculate_model_probability: the strptime of a string date runs outside
\* the try block; every exception of the probability query is swallowed.
CalculateModelProbabilityOf(mdl, c) ==
    IF c.date = NoDate THEN Ret(None)
    ELSE IF c.temperature = None THEN Ret(None)
    ELSE LET Caught(q) == IF q.raised THEN Ret(None) ELSE q
             Parsed(contract_date) ==
                 IF contract_date.raised THEN contract_date
                 ELSE Apply(Caught, QueryForType(mdl, c, DayOfYear(contract_date.val)))
         IN  Apply(Parsed, IF c.date.kind = "date"
                           THEN Ret(Date(c.date.y, c.date.m, c.date.d))
                           ELSE Strptime(c.date))

\* calculate_expected_value
CalculateExpectedValue(c, model_prob) ==
    IF c.yes_mid = None THEN None ELSE FSub(model_prob, c.yes_mid)

\* The prices (thousandths) at which IEEE double arithmetic leaves
\* odds * p - (1 - p) above zero for p = price and odds = 1.0 / price - 1.0,
\* where the exact value is zero: 0.3 gives 4.8e-17, 0.5 gives 0.0.  The
\* table holds the tenths and the values of the CDF table; for p # price
\* the double has the sign of the exact value.
RoundsAboveZero == {300, 400, 800, 900, 691, 933, 999}

\* The rounding residue of the double kelly, in thousandths rounded up.
KellyResidue(price, p) == IF p = price /\ price \in RoundsAboveZero THEN 1 ELSE 0

\* calculate_kelly_fraction: (odds * p - (1 - p)) / odds with odds = 1/price - 1
\* is (p - price) / (1 - price) up to the rounding residue; a positive stake
\* below a thousandth is one thousandth.
CalculateKellyFraction(c, model_prob) ==
    IF c.yes_mid = None \/ FLe(c.yes_mid, Num(0)) \/ FGe(c.yes_mid, Num(1000)) THEN None
    ELSE IF FLe(model_prob, Num(0)) \/ FGe(model_prob, Num(1000)) THEN None
    ELSE LET kelly == IF IsNum(model_prob) /\ IsNum(c.yes_mid)
                      THEN Num((1000 * (model_prob.v - c.yes_mid.v)) \div (1000 - c.yes_mid.v)
                               + KellyResidue(c.yes_mid.v, model_prob.v))
                      ELSE NaN
         IN  IF FGt(kelly, Num(0)) THEN kelly ELSE None

\* Python truthiness of the market price: None and 0.0 are false.
Truthy(x) == x # None /\ x # Num(0)

\* The analysis of a contract that cannot be evaluated.
CannotEvaluate(c) ==
    [ contract |-> c, model_probability |-> None, market_price |-> c.yes_mid,
      expected_value |-> None, kelly_fraction |-> None, edge |-> None,
      analysis_status |-> "cannot_evaluate" ]

\* The analysis of a contract with model probability model_prob.
Complete(c, model_prob) ==
    [ contract |-> c, model_probability |-> model_prob, market_price |-> c.yes_mid,
      expected_value |-> IF Truthy(c.yes_mid)
                         THEN CalculateExpectedValue(c, model_prob) ELSE None,
      kelly_fraction |-> CalculateKellyFraction(c, model_prob),
      edge |-> IF Truthy(c.yes_mid) THEN FSub(model_prob, c.yes_mid) ELSE None,
      analysis_status |-> "complete" ]

\* A variant of the dictionaries of analyze_contract in which a contract
\* without a price is reported as cannot_evaluate.
AnalysisPriceRequired(c, model_prob) ==
    IF model_prob = None \/ c.yes_mid = None THEN CannotEvaluate(c)
    ELSE Complete(c, model_prob)

\* The dictionary analyze_contract returns for model probability model_prob.
Analysis(c, model_prob) ==
    IF model_prob = None THEN CannotEvaluate(c) ELSE Complete(c, model_prob)

\* analyze_contract
AnalyzeContractOf(mdl, c) ==
    LET K(mp) == IF mp.raised THEN mp ELSE Ret(Analysis(c, mp.val))
    IN  Apply(K, CalculateModelProbabilityOf(mdl, c))

\* One iteration of the loop of analyze_contracts: a None volume fails the
\* comparison with min_volume (TypeError), an exception of analyze_contract
\* propagates, and a contract that fails a filter appends nothing (None).
AnalyzeIteration(mdl, c, min_edge, min_volume) ==
    IF c.volume = None THEN Raise("TypeError")
    ELSE IF c.volume.v < min_volume THEN Ret(None)
    ELSE LET K(analysis) ==
                 IF analysis.raised THEN analysis
                 ELSE IF analysis.val.edge # None /\ FGe(analysis.val.edge, Num(min_edge))
                 THEN analysis
                 ELSE Ret(None)
         IN  Apply(K, AnalyzeContractOf(mdl, c))

IsAppended(x) == x # None

\* The loop of analyze_contracts: the first raising iteration leaves the
\* loop; otherwise the appended analyses, in the order of the contracts.
AnalyzeLoop(mdl, contracts, min_edge, min_volume) ==
    LET K(its) ==
            IF \E i \in 1..Len(its) : its[i].raised
            THEN its[CHOOSE i \in 1..Len(its) :
                        its[i].raised /\ \A j \in 1..(i - 1) : ~its[j].raised]
            ELSE Ret(SelectSeq([i \in 1..Len(its) |-> its[i].val], IsAppended))
    IN  Apply(K, [i \in 1..Len(contracts) |->
                    AnalyzeIteration(mdl, contracts[i], min_edge, min_volume)])

\* df.sort_values("expected_value", ascending=False, na_last=True):
\* DataFrame.sort_values has no parameter na_last (it is na_position), so the
\* call raises TypeError before any row is ordered.
SortValues(rows) == Raise("TypeError")

\* analyze_contracts: an empty DataFrame when nothing passed the filters
AnalyzeContractsOf(mdl, contracts, min_edge, min_volume) ==
    LET K(results) ==
            IF results.raised THEN results
            ELSE IF results.val = <<>> THEN Ret(<<>>)
            ELSE SortValues(results.val)
    IN  Apply(K, AnalyzeLoop(mdl, contracts, min_edge, min_volume))

\* df.head(n): the first n rows, or all but the last -n rows for n < 0.
DfHead(rows, n) ==
    IF n >= 0 THEN SubSeq(rows, 1, IF n < Len(rows) THEN n ELSE Len(rows))
    ELSE SubSeq(rows, 1, IF Len(rows) + n > 0 THEN Len(rows) + n ELSE 0)

\* The opportunity dictionary get_opportunities builds from a row.
Opportunity(row) ==
    [ ticker |-> row.contract.ticker, date |-> row.contract.date,
      temperature |-> row.contract.temperature,
      model_probability |-> row.model_probability, market_price |-> row.market_price,
      edge |-> row.edge, expected_value |-> row.expected_value,
      kelly_fraction |-> row.kelly_fraction, volume |-> row.contract.volume,
      contract_type |-> row.contract.contract_type ]

\* get_opportunities
GetOpportunitiesOf(mdl, contracts, min_edge, min_volume, max_results) ==
    LET Rows(top) == Ret([i \in 1..Len(top) |-> Opportunity(top[i])])
        K(frame) ==
            IF frame.raised THEN frame
            ELSE IF frame.val = <<>> THEN Ret(<<>>)
            ELSE Apply(Rows, DfHead(frame.val, max_results))
    IN  Apply(K, AnalyzeContractsOf(mdl, contracts, min_edge, min_volume))

CalculateModelProbability(c) ==
    /\ call = NoCall
    /\ model.trained
    /\ call' = [op |-> "calculate_model_probability", contract |-> c]
    /\ result' = CalculateModelProbabilityOf(model, c)
    /\ UNCHANGED <<df, window, model, system, effects>>

AnalyzeContract(c) ==
    /\ call = NoCall
    /\ model.trained
    /\ call' = [op |-> "analyze_contract", contract |-> c]
    /\ result' = AnalyzeContractOf(model, c)
    /\ UNCHANGED <<df, window, model, system, effects>>

AnalyzeContracts(contracts, min_edge, min_volume) ==
    /\ call = NoCall
    /\ model.trained
    /\ call' = [ op |-> "analyze_contracts", contracts |-> contracts,
                 min_edge |-> min_edge, min_volume |-> min_volume ]
    /\ result' = AnalyzeContractsOf(model, contracts, min_edge, min_volume)
    /\ UNCHANGED <<df, window, model, system, effects>>

GetOpportunities(contracts, min_edge, min_volume, max_results) ==
    /\ call = NoCall
    /\ model.trained
    /\ call' = [ op |-> "get_opportunities", contracts |-> contracts,
                 min_edge |-> min_edge, min_volume |-> min_volume,
                 max_results |-> max_results ]
    /\ result' = GetOpportunitiesOf(model, contracts, min_edge, min_volume, max_results)
    /\ UNCHANGED <<df, window, model, system, effects>>

\* calculate_kelly_fraction called on the analyzer with a probability.
KellyFraction(c, model_prob) ==
    /\ call = NoCall
    /\ model.trained
    /\ call' = [ op |-> "calculate_kelly_fraction", contract |-> c,
                 model_prob |-> model_prob ]
    /\ result' = Ret(CalculateKellyFraction(c, model_prob))
    /\ UNCHANGED <<df, window, model, system, effects>>

-----------------------------------------------------------------------------
(* MarketContractParser.parse_contract *)

\* The market titles parsed, with what the three title parsers find in each.
Titles ==
    { "Will NYC high temp be >= 74 F on Jan 1, 2025?",
      "NYC high below 76 F on 7/2/2025",
      "" }

\* parse_temperature_threshold
ParseTemperatureThreshold(title) ==
    IF title = "Will NYC high temp be >= 74 F on Jan 1, 2025?" THEN Num(7400)
    ELSE IF title = "NYC high below 76 F on 7/2/2025" THEN Num(7600)
    ELSE None

\* parse_date_from_title
ParseDateFromTitle(title) ==
    IF title = "Will NYC high temp be >= 74 F on Jan 1, 2025?" THEN DateObj(Date(2025, 1, 1))
    ELSE IF title = "NYC high below 76 F on 7/2/2025" THEN DateObj(Date(2025, 7, 2))
    ELSE NoDate

\* parse_contract_type
ParseContractType(title) ==
    IF title = "Will NYC high temp be >= 74 F on Jan 1, 2025?" THEN "greater_than"
    ELSE IF title = "NYC high below 76 F on 7/2/2025" THEN "less_than"
    ELSE "unknown"

\* A quote of a raw market record, in whole cents; None when the key is
\* absent or null.
Quotes == {None, Num(0), Num(40), Num(60)}

\* market.get(side, 0) / 100.0 if market.get(side) else None: cents to
\* thousandths; a quote of 0 cents is falsy.
Normalised(quote) == IF Truthy(quote) THEN Num(10 * quote.v) ELSE None

\* The mid price of the normalised quotes.
YesMid(yes_bid, yes_ask) ==
    IF yes_bid # None /\ yes_ask # None THEN Num((yes_bid.v + yes_ask.v) \div 2)
    ELSE IF yes_bid # None THEN yes_bid
    ELSE IF yes_ask # None THEN yes_ask
    ELSE None

\* The raw market records parsed.
Markets ==
    [ ticker : {"T"}, title : Titles, yes_bid : Quotes, yes_ask : Quotes,
      volume : {Num(0), Num(100)} ]

\* parse_contract
ParseContractOf(market) ==
    [ ticker |-> market.ticker, title |-> market.title,
      yes_bid |-> Normalised(market.yes_bid), yes_ask |-> Normalised(market.yes_ask),
      volume |-> market.volume,
      temperature |-> ParseTemperatureThreshold(market.title),
      date |-> ParseDateFromTitle(market.title),
      contract_type |-> ParseContractType(market.title),
      yes_mid |-> YesMid(Normalised(market.yes_bid), Normalised(market.yes_ask)) ]

ParseContract(market) ==
    /\ call = NoCall
    /\ call' = [op |-> "parse_contract", market |-> market]
    /\ result' = Ret(ParseContractOf(market))
    /\ UNCHANGED <<df, window, model, system, effects>>

-----------------------------------------------------------------------------
(* The analyzer specification: a MispricingAnalyzer is constructed over a   *)
(* trained model and is asked about contracts.                              *)

\* The longest contract list passed to a ranking pass.
MaxContracts == 2
\* max_results values 0..MaxResults are passed to get_opportunities.
MaxResults == 2

Contract(t, dt, temp, type, price, vol) ==
    [ ticker |-> t, date |-> dt, temperature |-> temp, contract_type |-> type,
      yes_mid |-> price, volume |-> vol ]

\* The contracts ranking passes are drawn from.
RankPool ==
    { Contract("A", DateObj(Date(2025, 1, 1)), Num(7400), "greater_than", Num(400), Num(100)),
      Contract("B", DateStr(Date(2025, 7, 2)), Num(7600), "less_than", Num(400), Num(100)),
      Contract("C", DateObj(Date(2025, 1, 1)), Num(7400), "range", Num(900), Num(100)),
      Contract("D", DateObj(Date(2025, 1, 1)), Num(7400), "greater_than", Num(400), Num(0)),
      Contract("E", DateObj(Date(2025, 1, 1)), Num(7400), "greater_than", Num(400), None),
      Contract("F", BadStr, Num(7400), "greater_than", Num(400), Num(100)),
      Contract("G", DateObj(Date(2024, 12, 31)), Num(7400), "greater_than", Num(400), Num(100)),
      Contract("H", DateObj(Date(2025, 1, 1)), Num(7400), "greater_than", None, Num(100)) }

ContractLists == UNION { [1..n -> RankPool] : n \in 0..MaxContracts }

MinEdges == {0, 300}
MinVolumes == {0, 50}

\* The frames, windows and thresholds the analyzed models are trained with:
\* an empty history, a single reading, two readings of one day-of-year, and
\* two equal readings on day-of-year 180.
AnalyzerTrainings ==
    { <<[dt \in {} |-> NaN], 0, 1>>,
      <<[dt \in {Date(2024, 1, 1)} |-> Num(7500)], 0, 1>>,
      <<[dt \in {Date(2023, 1, 1), Date(2024, 1, 1)} |->
            IF dt.y = 2023 THEN Num(7300) ELSE Num(7500)], 0, 2>>,
      <<[dt \in {Date(2023, 6, 29), Date(2024, 6, 28)} |-> Num(7500)], 0, 2>> }

\* The thresholds, dates and tolerances the model is queried with.
QueryTemps == {7400, 7600}
SessionDates == {Date(2025, 1, 1), Date(2025, 6, 29), Date(2024, 12, 31)}
Tolerances == {50, 300}

\* The prices and probabilities calculate_kelly_fraction is called with:
\* the ends and both sides of the unit interval, and values inside it.
KellyPrices == {None, Num(-100), Num(0), Num(300), Num(500), Num(900), Num(1000), Num(1100)}
KellyProbs == {NaN, Num(-100), Num(0), Num(300), Num(500), Num(900), Num(1000), Num(1100)}

\* A contract that carries a price only.
Priced(price) == Contract("K", NoDate, None, "unknown", price, Num(0))

InitAnalyzer ==
    \E t \in AnalyzerTrainings :
        /\ df = t[1]
        /\ window = t[2]
        /\ model = TrainModel(t[1], t[2], t[3])
        /\ call = NoCall
        /\ result = Ret(None)
        /\ system = NoSystem
        /\ effects = NoEffects

NextAnalyzer ==
    \/ \E c \in Contracts : CalculateModelProbability(c)
    \/ \E c \in Contracts : AnalyzeContract(c)
    \/ \E cs \in ContractLists, me \in MinEdges, mv \in MinVolumes :
          AnalyzeContracts(cs, me, mv)
    \/ \E cs \in ContractLists, me \in MinEdges, mv \in MinVolumes, k \in 0..MaxResults :
          GetOpportunities(cs, me, mv, k)
    \/ \E price \in KellyPrices, p \in KellyProbs : KellyFraction(Priced(price), p)
    \/ \E market \in Markets : ParseContract(market)
    \/ \E x \in QueryTemps, dt \in SessionDates : QueryProbGreaterThan(x, dt)
    \/ \E x \in QueryTemps, dt \in SessionDates : QueryProbLessThan(x, dt)
    \/ \E x \in QueryTemps, dt \in SessionDates : QueryProbGreaterEqual(x, dt)
    \/ \E x \in QueryTemps, dt \in SessionDates : QueryProbLessEqual(x, dt)
    \/ \E low, high \in QueryTemps, dt \in SessionDates, il, ih \in BOOLEAN :
          QueryProbRange(low, high, dt, il, ih)
    \/ \E x \in QueryTemps, dt \in SessionDates, tol \in Tolerances :
          QueryProbExactly(x, dt, tol)
    \/ \E dt \in SessionDates : GetForecast(dt)
    \/ \E dt \in SessionDates : GetPercentiles(dt)
    \/ Return

SpecAnalyzer == InitAnalyzer /\ [][NextAnalyzer]_vars

-----------------------------------------------------------------------------
(* ForecastSystem *)

\* the default min_samples of train, which initialize does not override
DefaultMinSamples == 30
\* the default model_window of ForecastSystem
DefaultModelWindow == 7
\* The most calls of load_nyc_daily_highs in one behaviour.
MaxLoads == 2

\* The histories load_nyc_daily_highs returns: none at all, and January 8
\* to 22 of two years, thirty readings in the window of day-of-year 15.
EmptyHistory == [dt \in {} |-> NaN]
FullHistory ==
    [dt \in { Date(y, 1, d) : y \in {2023, 2024}, d \in 8..22 } |->
        Num(7400 + 100 * (dt.d % 3))]

\* The outcomes of load_nyc_daily_highs: the request fails or a frame is
\* returned.
LoadOutcomes == {Raise("RequestException"), Ret(EmptyHistory), Ret(FullHistory)}

\* A variant of initialize that loads and trains on every call.
InitializedReloading(force_reload, loaded) ==
    IF loaded.raised
    THEN [ raised |-> TRUE, exc |-> loaded.exc, df |-> df, model |-> model,
           system |-> system, effects |-> effects, loaded |-> "raised" ]
    ELSE LET K(m) ==
                 [ raised |-> FALSE, exc |-> "", df |-> loaded.val, model |-> m,
                   system |-> [ analyzer |-> [set |-> TRUE, model |-> m],
                                _initialized |-> TRUE ],
                   effects |-> [ loads |-> effects.loads + 1,
                                 trainings |-> effects.trainings + 1 ],
                   loaded |-> "returned" ]
         IN  Apply(K, TrainModel(loaded.val, window, DefaultMinSamples))

\* A variant of initialize that drops the model and the analyzer before it
\* loads, so that a load that raises leaves a cleared system.
InitializedClearingFirst(force_reload, loaded) ==
    IF system._initialized /\ ~force_reload
    THEN [ raised |-> FALSE, exc |-> "", df |-> df, model |-> model,
           system |-> system, effects |-> effects, loaded |-> "none" ]
    ELSE IF loaded.raised
    THEN [ raised |-> TRUE, exc |-> loaded.exc, df |-> df, model |-> NoModel,
           system |-> NoSystem, effects |-> effects, loaded |-> "raised" ]
    ELSE InitializedReloading(force_reload, loaded)

\* initialize: the state it leaves and whether it raised.  Nothing is done
\* for an initialized system unless force_reload; an exception of the load
\* leaves the fields as they were; otherwise model, analyzer and
\* _initialized are set, in this order.
Initialized(force_reload, loaded) ==
    IF system._initialized /\ ~force_reload
    THEN [ raised |-> FALSE, exc |-> "", df |-> df, model |-> model,
           system |-> system, effects |-> effects, loaded |-> "none" ]
    ELSE IF loaded.raised
    THEN [ raised |-> TRUE, exc |-> loaded.exc, df |-> df, model |-> model,
           system |-> system, effects |-> effects, loaded |-> "raised" ]
    ELSE LET K(m) ==
                 [ raised |-> FALSE, exc |-> "", df |-> loaded.val, model |-> m,
                   system |-> [ analyzer |-> [set |-> TRUE, model |-> m],
                                _initialized |-> TRUE ],
                   effects |-> [ loads |-> effects.loads + 1,
                                 trainings |-> effects.trainings + 1 ],
                   loaded |-> "returned" ]
         IN  Apply(K, TrainModel(loaded.val, window, DefaultMinSamples))

\* The fields a call of the system leaves, post being the outcome of the
\* initialize it made.
Leaves(post) ==
    /\ post.effects.loads <= MaxLoads
    /\ df' = post.df
    /\ model' = post.model
    /\ system' = post.system
    /\ effects' = post.effects
    /\ UNCHANGED window

Initialize(force_reload, loaded) ==
    /\ call = NoCall
    /\ \E post \in {Initialized(force_reload, loaded)} :
          /\ Leaves(post)
          /\ call' = [ op |-> "initialize", force_reload |-> force_reload,
                       loaded |-> post.loaded ]
          /\ result' = IF post.raised THEN Raise(post.exc) ELSE Ret(None)

\* The dictionary ForecastSystem.get_forecast builds from the model.
ForecastOf(mdl, doy) ==
    LET K(f) ==
            IF f.raised THEN f
            ELSE LET P(pc) ==
                         IF pc.raised THEN pc
                         ELSE Ret([ mean |-> f.val[1], std |-> f.val[2],
                                    percentiles |-> pc.val ])
                 IN  Apply(P, GetPercentilesOf(mdl, doy))
    IN  Apply(K, GetForecastOf(mdl, doy))

SystemGetForecast(target_date, loaded) ==
    /\ call = NoCall
    /\ \E post \in {Initialized(FALSE, loaded)} :
          /\ Leaves(post)
          /\ call' = [ op |-> "ForecastSystem.get_forecast", date |-> target_date,
                       loaded |-> post.loaded ]
          /\ result' = IF post.raised THEN Raise(post.exc)
                       ELSE ForecastOf(post.model, DayOfYear(target_date))

\* The markets the exchange answers with.
MarketPool ==
    { [ ticker |-> "T", title |-> "Will NYC high temp be >= 74 F on Jan 1, 2025?",
        yes_bid |-> Num(40), yes_ask |-> Num(60), volume |-> Num(100) ],
      [ ticker |-> "T", title |-> "NYC high below 76 F on 7/2/2025",
        yes_bid |-> None, yes_ask |-> Num(40), volume |-> Num(100) ],
      [ ticker |-> "T", title |-> "",
        yes_bid |-> Num(0), yes_ask |-> None, volume |-> Num(0) ] }

MarketLists == UNION { [1..n -> MarketPool] : n \in 0..MaxContracts }

\* get_market_details: the market, or nothing when the request fails.
MarketDetails ==
    {[found |-> FALSE]} \cup { [found |-> TRUE, market |-> m] : m \in MarketPool }

\* find_opportunities, markets being the answer to fetch_nyc_markets.
FindOpportunitiesOf(mdl, markets, min_edge, min_volume, max_results) ==
    IF markets = <<>> THEN Ret(<<>>)
    ELSE GetOpportunitiesOf(mdl, [i \in 1..Len(markets) |-> ParseContractOf(markets[i])],
                            min_edge, min_volume, max_results)

FindOpportunities(markets, min_edge, min_volume, max_results, loaded) ==
    /\ call = NoCall
    /\ \E post \in {Initialized(FALSE, loaded)} :
          /\ Leaves(post)
          /\ call' = [ op |-> "find_opportunities", markets |-> markets,
                       min_edge |-> min_edge, min_volume |-> min_volume,
                       max_results |-> max_results, loaded |-> post.loaded ]
          /\ result' = IF post.raised THEN Raise(post.exc)
                       ELSE FindOpportunitiesOf(post.model, markets, min_edge,
                                                min_volume, max_results)

\* analyze_specific_contract: the analysis of the parsed market, with the
\* forecast for its date when it has one.
AnalyzeSpecificContractOf(mdl, details) ==
    IF ~details.found THEN Ret([error |-> "not found"])
    ELSE LET contract == ParseContractOf(details.market)
             K(analysis) ==
                 IF analysis.raised THEN analysis
                 ELSE IF contract.date = NoDate
                 THEN Ret([analysis |-> analysis.val, forecast |-> None])
                 ELSE LET F(forecast) ==
                              IF forecast.raised THEN forecast
                              ELSE Ret([ analysis |-> analysis.val,
                                         forecast |-> forecast.val ])
                      IN  Apply(F, ForecastOf(mdl, ContractDay(contract)))
         IN  Apply(K, AnalyzeContractOf(mdl, contract))

AnalyzeSpecificContract(details, loaded) ==
    /\ call = NoCall
    /\ \E post \in {Initialized(FALSE, loaded)} :
          /\ Leaves(post)
          /\ call' = [ op |-> "analyze_specific_contract", details |-> details,
                       loaded |-> post.loaded ]
          /\ result' = IF post.raised THEN Raise(post.exc)
                       ELSE AnalyzeSpecificContractOf(post.model, details)

\* A ForecastSystem is constructed with the default window and is called.
InitSystem ==
    /\ df = EmptyHistory
    /\ window = DefaultModelWindow
    /\ model = NoModel
    /\ call = NoCall
    /\ result = Ret(None)
    /\ system = NoSystem
    /\ effects = NoEffects

NextSystem ==
    \/ \E force_reload \in BOOLEAN, loaded \in LoadOutcomes :
          Initialize(force_reload, loaded)
    \/ \E dt \in SessionDates, loaded \in LoadOutcomes : SystemGetForecast(dt, loaded)
    \/ \E ms \in MarketLists, me \in MinEdges, mv \in MinVolumes, k \in 0..MaxResults,
          loaded \in LoadOutcomes : FindOpportunities(ms, me, mv, k, loaded)
    \/ \E details \in MarketDetails, loaded \in LoadOutcomes :
          AnalyzeSpecificContract(details, loaded)
    \/ Return

SpecSystem == InitSystem /\ [][NextSystem]_vars

-----------------------------------------------------------------------------
(* Properties of the climatology model *)

Abs(x) == IF x < 0 THEN -x ELSE x

\* The distance of two days on the 366-day ring (day 366 next to day 1).
RingDistance(d1, d2) ==
    IF Abs(d1 - d2) <= 366 - Abs(d1 - d2) THEN Abs(d1 - d2) ELSE 366 - Abs(d1 - d2)

\* The days of the year of the readings train pools into day doy.
PooledDoys(doy) == { DayOfYear(dt) : dt \in WindowRows(df, doy, window) }

\* The days of the year of the readings within w ring days of doy.
RingDoys(doy) ==
    { DayOfYear(dt) : dt \in { x \in DOMAIN df : IsNum(df[x]) /\ RingDistance(doy, DayOfYear(x)) <= window } }

\* C4: after train, the readings pooled into each day-of-year d are exactly
\* those whose day-of-year is within window days of d on the 366-day ring.
C4_PoolIsRingWindow ==
    call.op = "train" => \A doy \in Doys : PooledDoys(doy) = RingDoys(doy)

Present == DOMAIN model.mu_by_doy

\* C5: a lookup in a non-empty model returns the day's own parameters when
\* the day is present, and otherwise the parameters of a present day at
\* minimal ring distance from it.
C5_LookupReturnsNearest ==
    (call.op = "_params_for_date" /\ Present # {}) =>
        /\ ~result.raised
        /\ call.doy \in Present =>
              result.val = <<model.mu_by_doy[call.doy], model.sigma_by_doy[call.doy]>>
        /\ call.doy \notin Present =>
              \E p \in Present :
                 /\ \A q \in Present : RingDistance(call.doy, p) <= RingDistance(call.doy, q)
                 /\ result.val = <<model.mu_by_doy[p], model.sigma_by_doy[p]>>

\* C6: a lookup raises only in an empty model.
C6_LookupFailsOnlyWhenEmpty ==
    call.op = "_params_for_date" => (result.raised <=> Present = {})

\* C7: train raises InsufficientData when no day-of-year reaches min_samples,
\* and never leaves a model whose day-of-year mapping is empty.
C7_TrainRejectsEmptyModel ==
    call.op = "train" =>
        IF \A doy \in Doys : Cardinality(WindowRows(df, doy, window)) < call.min_samples
        THEN result.raised /\ result.exc = "InsufficientData"
        ELSE Present # {}

-----------------------------------------------------------------------------
(* Properties of the mispricing engine *)

\* Does contract c pass the volume and edge filters of a ranking pass?
Survives(c, min_edge, min_volume) ==
    /\ c.volume # None
    /\ c.volume.v >= min_volume
    /\ LET K(a) == ~a.raised /\ a.val.edge # None /\ FGe(a.val.edge, Num(min_edge))
       IN  Apply(K, AnalyzeContractOf(model, c))

Survivors(contracts, min_edge, min_volume) ==
    { i \in 1..Len(contracts) : Survives(contracts[i], min_edge, min_volume) }

\* Rows ordered by expected value, largest first, undefined values last.
OrderedByValue(rows) ==
    \A i, j \in 1..Len(rows) :
        i < j => \/ ~IsNum(rows[j].expected_value)
                 \/ FGe(rows[i].expected_value, rows[j].expected_value)

\* C1: a ranking pass in which some contract passes the filters returns
\* passing contracts only, ordered by expected value, largest first.
C1_RankingIsOrdered ==
    ( /\ call.op = "get_opportunities"
      /\ Survivors(call.contracts, call.min_edge, call.min_volume) # {} ) =>
        /\ ~result.raised
        /\ OrderedByValue(result.val)
        /\ \A r \in 1..Len(result.val) :
              \E i \in Survivors(call.contracts, call.min_edge, call.min_volume) :
                 call.contracts[i].ticker = result.val[r].ticker

Min(a, b) == IF a <= b THEN a ELSE b

\* A contract a ranking pass cannot price: a null volume, a date string that
\* does not parse, or a date the model cannot resolve.
IsBad(c) ==
    \/ c.volume = None
    \/ c.date = BadStr
    \/ /\ c.date.kind \in {"date", "str"}
       /\ ParamsForDoy(model, DayOfYear(Date(c.date.y, c.date.m, c.date.d))).raised

IsGood(c) == ~IsBad(c)

\* C2: a ranking pass over contracts that can all be priced returns
\* min(max_results, k) of the k contracts that pass the filters, none that
\* fails one, and none whose expected value is below that of a passing
\* contract left out.
C2_RankingIsTopK ==
    ( /\ call.op = "get_opportunities"
      /\ \A i \in 1..Len(call.contracts) : IsGood(call.contracts[i]) ) =>
        LET passing == Survivors(call.contracts, call.min_edge, call.min_volume)
        IN  /\ ~result.raised
            /\ Len(result.val) = Min(call.max_results, Cardinality(passing))
            /\ \A r \in 1..Len(result.val) :
                  \E i \in passing :
                     /\ call.contracts[i].ticker = result.val[r].ticker
                     /\ \A j \in passing :
                           \/ \E q \in 1..Len(result.val) :
                                 result.val[q].ticker = call.contracts[j].ticker
                           \/ FGe(result.val[r].expected_value,
                                  AnalyzeContractOf(model, call.contracts[j]).val.expected_value)

\* C3: a pass over a list that holds one bad contract does not raise and
\* gives what the pass over the list without that contract gives.
C3_BadContractIsIsolated ==
    ( /\ call.op = "analyze_contracts"
      /\ Cardinality({ i \in 1..Len(call.contracts) : IsBad(call.contracts[i]) }) = 1 ) =>
        /\ ~result.raised
        /\ result = AnalyzeContractsOf(model, SelectSeq(call.contracts, IsGood),
                                       call.min_edge, call.min_volume)

\* The calendar date a contract carries as a date object or a parsable string.
ContractDoy(c) == DayOfYear(Date(c.date.y, c.date.m, c.date.d))

\* The outcome of a probability query as calculate_model_probability reports
\* it: a failed query is "cannot evaluate".
Reported(q) == IF q.raised THEN Ret(None) ELSE q

HasDateAndThreshold(c) == c.date.kind \in {"date", "str"} /\ c.temperature # None

\* C8 as amended: with a date and a threshold, greater_than asks P(T >= x),
\* less_than asks P(T <= x), range asks the greater_than query, and unknown
\* asks no query and has no model probability.
C8_TypeSelectsQuery ==
    (call.op = "calculate_model_probability" /\ HasDateAndThreshold(call.contract)) =>
        LET c == call.contract
        IN  /\ c.contract_type \in {"greater_than", "range"} =>
                 result = Reported(ProbGreaterEqual(model, c.temperature.v, ContractDoy(c)))
            /\ c.contract_type = "less_than" =>
                 result = Reported(ProbLessEqual(model, c.temperature.v, ContractDoy(c)))
            /\ c.contract_type = "unknown" => result = Ret(None)

\* C8 as stated: all four contract types yield the query's probability,
\* unknown the same one as greater_than.
C8_AllTypesYieldQuery ==
    (call.op = "calculate_model_probability" /\ HasDateAndThreshold(call.contract)) =>
        LET c == call.contract
        IN  /\ c.contract_type \in {"greater_than", "range", "unknown"} =>
                 result = Reported(ProbGreaterEqual(model, c.temperature.v, ContractDoy(c)))
            /\ c.contract_type = "less_than" =>
                 result = Reported(ProbLessEqual(model, c.temperature.v, ContractDoy(c)))

\* An unknown contract has no model probability where the greater_than
\* query has one.
C8_Witness ==
    /\ call.op = "calculate_model_probability"
    /\ HasDateAndThreshold(call.contract)
    /\ call.contract.contract_type = "unknown"
    /\ result = Ret(None)
    /\ LET K(ge) == ~ge.raised /\ IsNum(ge.val) /\ ge # result
       IN  Apply(K, ProbGreaterEqual(model, call.contract.temperature.v,
                                     ContractDoy(call.contract)))

\* C9 as amended: without a date or a threshold the analysis is returned as
\* cannot_evaluate; without a price only, a returned analysis has no edge,
\* expected value or stake, and is complete when a model probability exists.
C9_MissingFieldStatus ==
    call.op = "analyze_contract" =>
        LET c == call.contract
        IN  /\ (c.date = NoDate \/ c.temperature = None) =>
                 ~result.raised /\ result.val.analysis_status = "cannot_evaluate"
            /\ (c.yes_mid = None /\ ~result.raised) =>
                 /\ result.val.edge = None
                 /\ result.val.expected_value = None
                 /\ result.val.kelly_fraction = None
                 /\ result.val.analysis_status =
                      IF CalculateModelProbabilityOf(model, c).val = None
                      THEN "cannot_evaluate" ELSE "complete"

\* C9 as stated, for contracts whose date is absent, a date object or a
\* parsable string: without a date, a threshold or a price the contract is
\* returned as cannot_evaluate.
C9_MissingFieldCannotEvaluate ==
    ( /\ call.op = "analyze_contract"
      /\ call.contract.date # BadStr
      /\ \/ call.contract.date = NoDate
         \/ call.contract.temperature = None
         \/ call.contract.yes_mid = None ) =>
        ~result.raised /\ result.val.analysis_status = "cannot_evaluate"

\* A contract with a date, a threshold and a model probability but no price
\* is analysed as complete.
C9_Witness ==
    /\ call.op = "analyze_contract"
    /\ call.contract.yes_mid = None
    /\ HasDateAndThreshold(call.contract)
    /\ ~result.raised
    /\ IsNum(result.val.model_probability)
    /\ result.val.analysis_status = "complete"
    /\ result.val.edge = None

\* C10: edge and expected value are defined exactly when the model
\* probability and the market price both are, and then both are their
\* difference.
C10_EdgeDefinedWithInputs ==
    (call.op = "analyze_contract" /\ ~result.raised) =>
        LET a == result.val
            both == a.model_probability # None /\ a.market_price # None
        IN  /\ a.edge # None <=> both
            /\ a.expected_value # None <=> both
            /\ both => /\ a.edge = FSub(a.model_probability, a.market_price)
                       /\ a.expected_value = a.edge

\* The stake calculate_kelly_fraction is defined to return for exact inputs.
HasStake(price, p) ==
    /\ IsNum(price) /\ 0 < price.v /\ price.v < 1000
    /\ IsNum(p) /\ 0 < p.v /\ p.v < 1000
    /\ p.v > price.v

\* C11: a returned Kelly fraction lies in (0,1], and no fraction is returned
\* when the model probability equals the market price.
C11_KellyInUnitInterval ==
    (call.op = "calculate_kelly_fraction" /\ ~result.raised) =>
        /\ result.val # None =>
              IsNum(result.val) /\ 0 < result.val.v /\ result.val.v <= 1000
        /\ call.model_prob = call.contract.yes_mid => result.val = None

\* C12: calculate_kelly_fraction returns a stake exactly when price and
\* probability lie strictly inside (0,1) and the probability exceeds the
\* price, and never raises.
C12_KellyStakeIffEdge ==
    call.op = "calculate_kelly_fraction" =>
        /\ ~result.raised
        /\ result.val # None <=> HasStake(call.contract.yes_mid, call.model_prob)

\* The mid price of two raw quotes in cents, each present or absent: the
\* average of the normalised quotes, the single present one, or undefined.
MidOfQuotes(bid, ask) ==
    IF bid # None /\ ask # None THEN Num((10 * bid.v + 10 * ask.v) \div 2)
    ELSE IF bid # None THEN Num(10 * bid.v)
    ELSE IF ask # None THEN Num(10 * ask.v)
    ELSE None

\* C13: parse_contract sets yes_mid to the mid price of the raw quotes, a
\* quote of 0 cents counting as present.
C13_YesMidOfQuotes ==
    call.op = "parse_contract" =>
        /\ ~result.raised
        /\ result.val.yes_mid = MidOfQuotes(call.market.yes_bid, call.market.yes_ask)

\* The number of readings train pools into day doy.
Pooled(doy) == Cardinality(WindowRows(df, doy, window))

\* C14: after train a day-of-year is present in the model exactly when at
\* least min_samples readings are pooled into its window.
C14_PresentIffEnoughSamples ==
    call.op = "train" =>
        /\ DOMAIN model.sigma_by_doy = DOMAIN model.mu_by_doy
        /\ \A doy \in Doys :
              doy \in DOMAIN model.mu_by_doy <=> Pooled(doy) >= model.min_samples

\* A trained model holds a day with exactly min_samples readings and lacks
\* a day with one reading fewer, which has a present neighbour.
C14_Witness ==
    /\ call.op = "train"
    /\ model.min_samples >= 2
    /\ \E doy \in Present : Pooled(doy) = model.min_samples
    /\ \E doy \in Doys \ Present :
          /\ Pooled(doy) = model.min_samples - 1
          /\ doy - 1 \in Present

\* C15: after train every present day-of-year has a stored standard
\* deviation that is a number and is not negative.
C15_StdDefined ==
    call.op = "train" =>
        \A doy \in Present :
            IsNum(model.sigma_by_doy[doy]) /\ model.sigma_by_doy[doy].v >= 0

ProbOps ==
    { "prob_greater_than", "prob_less_than", "prob_greater_equal", "prob_less_equal",
      "prob_range", "prob_exactly" }

\* The queried date resolves in the model to a mean and a positive standard
\* deviation.
ResolvesToNormal(doy) ==
    LET K(p) == ~p.raised /\ IsNum(p.val[1]) /\ IsNum(p.val[2]) /\ p.val[2].v > 0
    IN  Apply(K, ParamsForDoy(model, doy))

\* C16: every probability query on a date that resolves in the model
\* returns a number in [0,1], prob_range for its bounds in either order.
C16_ProbabilityInUnitInterval ==
    (call.op \in ProbOps /\ ResolvesToNormal(call.doy)) =>
        /\ ~result.raised
        /\ IsNum(result.val)
        /\ 0 <= result.val.v /\ result.val.v <= 1000

\* Day-of-year 180 was fitted from min_samples equal readings of 75.0.
FittedFromEqualReadings ==
    /\ 180 \in Present
    /\ Cardinality(WindowRows(df, 180, window)) >= model.min_samples
    /\ model.min_samples >= 2
    /\ \A dt \in WindowRows(df, 180, window) : df[dt] = Num(7500)

\* C17: in a model whose day-of-year 180 was fitted from equal readings of
\* 75.0, prob_greater_than(74) and prob_less_than(76) on day 180 are 1.0.
C17_DegenerateDayIsCertain ==
    (FittedFromEqualReadings /\ call.op \in {"prob_greater_than", "prob_less_than"}
        /\ call.doy = 180) =>
        /\ (call.op = "prob_greater_than" /\ call.args = <<7400>>) =>
               result = Ret(Num(1000))
        /\ (call.op = "prob_less_than" /\ call.args = <<7600>>) =>
               result = Ret(Num(1000))

\* What a query returns as a function of the model and the arguments alone.
OutcomeOf(mdl, c) ==
    CASE c.op = "prob_greater_than" -> ProbGreaterThan(mdl, c.args[1], c.doy)
      [] c.op = "prob_less_than" -> ProbLessThan(mdl, c.args[1], c.doy)
      [] c.op = "prob_greater_equal" -> ProbGreaterEqual(mdl, c.args[1], c.doy)
      [] c.op = "prob_less_equal" -> ProbLessEqual(mdl, c.args[1], c.doy)
      [] c.op = "prob_range" ->
            ProbRange(mdl, c.args[1], c.args[2], c.doy, c.args[3], c.args[4])
      [] c.op = "prob_exactly" -> ProbExactly(mdl, c.args[1], c.doy, c.args[2])
      [] c.op = "get_forecast" -> GetForecastOf(mdl, c.doy)
      [] c.op = "get_percentiles" -> GetPercentilesOf(mdl, c.doy)
      [] c.op = "calculate_model_probability" -> CalculateModelProbabilityOf(mdl, c.contract)
      [] c.op = "analyze_contract" -> AnalyzeContractOf(mdl, c.contract)
      [] c.op = "analyze_contracts" ->
            AnalyzeContractsOf(mdl, c.contracts, c.min_edge, c.min_volume)
      [] c.op = "get_opportunities" ->
            GetOpportunitiesOf(mdl, c.contracts, c.min_edge, c.min_volume, c.max_results)

QueryOps ==
    ProbOps \cup { "get_forecast", "get_percentiles", "calculate_model_probability",
                   "analyze_contract", "analyze_contracts", "get_opportunities" }

\* C18: a query leaves the model as train returned it, returns what the
\* model it was asked of and its arguments determine, and hands back the
\* contract record as it was passed.
C18_QueriesAreReadOnly ==
    [][ call'.op \in QueryOps =>
          /\ model' = model
          /\ result' = OutcomeOf(model, call')
          /\ (call'.op = "analyze_contract" /\ ~result'.raised) =>
                 result'.val.contract = call'.contract ]_vars

\* A probability query on a day absent from the model was answered from the
\* nearest present day, and the day is still absent.
C18_Witness ==
    /\ call.op \in ProbOps
    /\ ~result.raised
    /\ Present # {}
    /\ call.doy \notin Present

SystemOps ==
    { "initialize", "ForecastSystem.get_forecast", "find_opportunities",
      "analyze_specific_contract" }

\* C19: a call of the system that does not pass force_reload loads and
\* trains once when the system is not initialized and the load succeeds,
\* and otherwise loads and trains nothing and keeps model and analyzer.
C19_TrainsAtMostOnce ==
    [][ (call'.op \in SystemOps /\ ~(call'.op = "initialize" /\ call'.force_reload)) =>
          /\ system._initialized =>
                /\ effects' = effects
                /\ model' = model
                /\ system' = system
          /\ (~system._initialized /\ call'.loaded = "returned") =>
                /\ effects'.loads = effects.loads + 1
                /\ effects'.trainings = effects.trainings + 1
                /\ system'._initialized
          /\ (~system._initialized /\ call'.loaded # "returned") =>
                /\ effects' = effects
                /\ system' = system ]_vars

\* A call was answered by an initialized system from the one model trained
\* so far, without a load.
C19_Witness ==
    /\ call.op \in {"ForecastSystem.get_forecast", "find_opportunities",
                    "analyze_specific_contract"}
    /\ call.loaded = "none"
    /\ system._initialized
    /\ effects.trainings = 1
    /\ DOMAIN model.mu_by_doy # {}
    /\ ~result.raised

\* The days of the year that carry a reading of the frame.
ObservedDoys == { DayOfYear(dt) : dt \in DOMAIN df }

\* The days of the year whose rows the mask of train selects for day doy.
WindowDoys(doy, w) == { d2 \in Doys : WindowMask(doy, d2, w) }

\* C20: the window relation of train is symmetric, and the window of every
\* day covers 2 * window + 1 days of the year; stated for the days that
\* carry readings.
C20_WindowIsSymmetric ==
    call.op = "train" =>
        /\ \A d1, d2 \in ObservedDoys :
              WindowMask(d1, d2, window) <=> WindowMask(d2, d1, window)
        /\ \A d \in ObservedDoys :
              Cardinality(WindowDoys(d, window)) = 2 * window + 1

\* The system holds a model and an analyzer built on that model.
SystemIsWhole ==
    /\ model.trained
    /\ system.analyzer.set
    /\ system.analyzer.model = model

\* C21: an initialized system holds a model and an analyzer on that model;
\* a call whose load raises leaves model, analyzer and _initialized as they
\* were; a force_reload that succeeds sets a newly trained model and an
\* analyzer on it.
C21_InitializedSystemIsWhole ==
    /\ [](system._initialized => SystemIsWhole)
    /\ [][ (call'.op \in SystemOps /\ call'.loaded = "raised") =>
              /\ result'.raised
              /\ model' = model
              /\ system' = system ]_vars
    /\ [][ (call'.op = "initialize" /\ call'.force_reload /\ call'.loaded = "returned") =>
              /\ system'._initialized
              /\ system'.analyzer.set
              /\ system'.analyzer.model = model'
              /\ model' = TrainModel(df', window, DefaultMinSamples)
              /\ effects'.trainings = effects.trainings + 1 ]_vars

\* The load of a force_reload raised on an initialized system that holds a
\* fitted model, and the system still holds it.
C21_Witness ==
    /\ call.op = "initialize"
    /\ call.force_reload
    /\ call.loaded = "raised"
    /\ result.raised
    /\ system._initialized
    /\ DOMAIN model.mu_by_doy # {}

====
